---- MODULE Spec2Model ----
(***************************************************************************)
(* Lease-based verification queue of VAREID/libraries/ui/db_scripts.py.    *)
(*                                                                         *)
(* Several worker processes ("instances") share one SQLite table,          *)
(* image_verification.  Every function of db_scripts.py opens its own      *)
(* connection, so each SQL transaction is one atomic step on the table;    *)
(* what a process does between two transactions (updating its private set  *)
(* instance_active_pairs, keeping a fetched result list) is a separate     *)
(* step, so that other processes and the heartbeat thread interleave.      *)
(*                                                                         *)
(* Time is the wall clock of datetime.now(), counted in whole minutes.  It  *)
(* advances by ClockStep, the shortest lapse after which a lease that was  *)
(* not refreshed is stale for the monitor's sweep.                         *)
(***************************************************************************)
EXTENDS Integers, Sequences, FiniteSets, TLC

\* ---------------------------------------------------------------- bounds
MaxId == 2            \* pair ids are 1..MaxId, ordered as ORDER BY id orders them
NumInstances == 2     \* worker processes, each with its own INSTANCE_IDENTIFIER
NumConsumers == 2     \* callers of get_decisions
NumMonitored == 1     \* instances 1..NumMonitored call start_heartbeat_system
MaxTicks == 1         \* the clock advances this many times
MaxBatch == 2         \* longest batch given to add_image_pairs
MaxCalls == 4         \* claim calls issued in the claim-race scenario
MaxMinutes == 4       \* the minute-by-minute clock stops at this minute
MaxUuid == 2          \* source identities (uuid1, uuid2 values) are 1..MaxUuid

Ids == 1..MaxId
Instances == 1..NumInstances
Consumers == 1..NumConsumers
Monitored == 1..NumMonitored
Uuids == 1..MaxUuid

\* ------------------------------------------------------- program constants
MonitorTimeoutMinutes == 3      \* reset_stale_pairs(db_path, timeout_minutes=3)

ClockStep == MonitorTimeoutMinutes + 1

NULL == -1                      \* SQL NULL of a TIMESTAMP / TEXT column
NoPair == 0                     \* Python None where a pair id is expected

Statuses == {"awaiting", "in_progress", "checked", "sent"}
Decisions == {"none", "correct", "incorrect", "cant_tell"}

\* A freshly inserted row: status given by the INSERT, the rest column defaults.
NewRow ==
  [status |-> "awaiting", decision |-> "none", started_at |-> NULL,
   completed_at |-> NULL, instance_id |-> NULL, heartbeat |-> NULL]

VARIABLES
  tbl,            \* image_verification: pair id -> row (domain = ids present)
  now,            \* datetime.now(), in minutes
  active,         \* instance_active_pairs of each instance
  pc,             \* main thread of each instance: the call it is inside
  mon,            \* heartbeat_worker thread of each instance
  shutdown_flag,  \* shutdown_flag of each instance
  fpc,            \* each consumer's position inside get_decisions
  delivered,      \* per pair id, the decisions get_decisions has returned for it
  claimLog,       \* return values of the claim calls of the claim-race scenario
  lastInsert,     \* the last logged add_image_pairs call: its batch and return value
  pairs,          \* the uuid1, uuid2 columns: <<id, uuid1, uuid2>> records in rowid order
  found,          \* the last query (pair lookup, statistics): function, arguments, result
  ticked          \* instances whose heartbeat thread began a tick since the clock moved

vars == <<tbl, now, active, pc, mon, shutdown_flag, fpc, delivered, claimLog, lastInsert, pairs, found, ticked>>

Idle == [op |-> "idle", id |-> NoPair, ok |-> FALSE]
Dead == [op |-> "dead", id |-> NoPair, ok |-> FALSE]
FIdle == [st |-> "idle", ids |-> {}, res |-> <<>>]
MonState(s, k) == [st |-> s, n |-> k]
PyNone == "None"
NoLookup == [fn |-> PyNone, a |-> 0, b |-> 0, result |-> PyNone]

\* ------------------------------------------------------------ SQL statements

\* Variant: INSERT OR REPLACE, which overwrites the row of an existing id.
InsertOrReplace(tb, id) ==
  [t |-> [x \in DOMAIN tb \cup {id} |-> IF x = id THEN NewRow ELSE tb[x]],
   changes |-> 1]

\* INSERT OR IGNORE ... VALUES (?, ..., 'awaiting'): one row; changes() is 0
\* when the primary key exists.
InsertOrIgnore(tb, id) ==
  IF id \in DOMAIN tb
    THEN [t |-> tb, changes |-> 0]
    ELSE [t |-> [x \in DOMAIN tb \cup {id} |-> IF x = id THEN NewRow ELSE tb[x]],
          changes |-> 1]

\* cursor.executemany: the statement once per tuple, rowcount the sum of changes.
RECURSIVE ExecuteMany(_, _)
ExecuteMany(tb, batch) ==
  IF batch = <<>>
    THEN [t |-> tb, rowcount |-> 0]
    ELSE LET one == InsertOrIgnore(tb, Head(batch))
             rest == ExecuteMany(one.t, Tail(batch))
         IN [t |-> rest.t, rowcount |-> one.changes + rest.rowcount]

\* SELECT id, decision ... WHERE id IN (pair_ids) AND status = 'checked'
SelectChecked(tb, ids) ==
  LET hit == {x \in ids \cap DOMAIN tb : tb[x].status = "checked"}
  IN [x \in hit |-> tb[x].decision]

\* UPDATE ... SET status = 'sent' WHERE id IN (pair_ids) AND status = 'checked'
MarkSent(tb, ids) ==
  [x \in DOMAIN tb |->
     IF x \in ids /\ tb[x].status = "checked"
       THEN [tb[x] EXCEPT !.status = "sent"]
       ELSE tb[x]]

\* SET status='awaiting', started_at=NULL, instance_id=NULL, heartbeat=NULL
Reset(row) ==
  [row EXCEPT !.status = "awaiting", !.started_at = NULL,
              !.instance_id = NULL, !.heartbeat = NULL]

\* Variant: the UPDATE without its instance_id=? condition.
ResetInstanceAnyOwner(tb, inst) ==
  [x \in DOMAIN tb |-> IF tb[x].status = "in_progress" THEN Reset(tb[x]) ELSE tb[x]]

\* UPDATE ... (reset) WHERE status='in_progress' AND instance_id=?
ResetInstance(tb, inst) ==
  [x \in DOMAIN tb |->
     IF tb[x].status = "in_progress" /\ tb[x].instance_id = inst
       THEN Reset(tb[x])
       ELSE tb[x]]

\* heartbeat IS NULL OR heartbeat < datetime.now() - timedelta(minutes=timeout)
Stale(row, t, timeout) ==
  row.heartbeat = NULL \/ row.heartbeat < t - timeout

\* Variant: the sweep without its status='in_progress' condition.
ResetStaleAnyStatus(tb, t, timeout) ==
  [x \in DOMAIN tb |-> IF Stale(tb[x], t, timeout) THEN Reset(tb[x]) ELSE tb[x]]

\* UPDATE ... (reset) WHERE status='in_progress' AND (heartbeat IS NULL OR heartbeat < ?)
ResetStale(tb, t, timeout) ==
  [x \in DOMAIN tb |->
     IF tb[x].status = "in_progress" /\ Stale(tb[x], t, timeout)
       THEN Reset(tb[x])
       ELSE tb[x]]

\* Variant: the SELECT without its status = 'awaiting' condition.
SelectNextAnyStatus(tb) ==
  IF DOMAIN tb = {} THEN NoPair ELSE CHOOSE x \in DOMAIN tb : \A y \in DOMAIN tb : x <= y

\* Variant: ORDER BY id DESC.
SelectNextDescending(tb) ==
  LET aw == {x \in DOMAIN tb : tb[x].status = "awaiting"}
  IN IF aw = {} THEN NoPair ELSE CHOOSE x \in aw : \A y \in aw : x >= y

\* SELECT ... WHERE status = 'awaiting' ORDER BY id ASC LIMIT 1; fetchone()
SelectNext(tb) ==
  LET aw == {x \in DOMAIN tb : tb[x].status = "awaiting"}
  IN IF aw = {} THEN NoPair ELSE CHOOSE x \in aw : \A y \in aw : x <= y

\* UPDATE ... SET status='in_progress', started_at=?, instance_id=?, heartbeat=?
\* WHERE id=? AND status='awaiting'
Reserve(tb, id, inst, t) ==
  [x \in DOMAIN tb |->
     IF x = id /\ tb[x].status = "awaiting"
       THEN [tb[x] EXCEPT !.status = "in_progress", !.started_at = t,
                          !.instance_id = inst, !.heartbeat = t]
       ELSE tb[x]]

\* Variant: the UPDATE without its instance_id=? condition.
HeartbeatAnyOwner(tb, ids, inst, t) ==
  [x \in DOMAIN tb |->
     IF x \in ids /\ tb[x].status = "in_progress"
       THEN [tb[x] EXCEPT !.heartbeat = t]
       ELSE tb[x]]

\* UPDATE ... SET heartbeat=? WHERE id IN (ids) AND instance_id=? AND status='in_progress'
Heartbeat(tb, ids, inst, t) ==
  [x \in DOMAIN tb |->
     IF x \in ids /\ tb[x].instance_id = inst /\ tb[x].status = "in_progress"
       THEN [tb[x] EXCEPT !.heartbeat = t]
       ELSE tb[x]]

\* Variant: the WHERE clause without its instance_id=? condition.
OwnedByAnyone(tb, id, inst) ==
  {x \in DOMAIN tb : x = id /\ tb[x].status = "in_progress"}

\* Variant: the WHERE clause without its status='in_progress' condition.
OwnedInAnyStatus(tb, id, inst) ==
  {x \in DOMAIN tb : x = id /\ tb[x].instance_id = inst}

\* Variant: the WHERE clause admitting the owner's checked rows as well.
OwnedOrChecked(tb, id, inst) ==
  {x \in DOMAIN tb : x = id /\ tb[x].instance_id = inst
                              /\ tb[x].status \in {"in_progress", "checked"}}

\* The rows of WHERE id=? AND instance_id=? AND status='in_progress' (rowcount)
Owned(tb, id, inst) ==
  {x \in DOMAIN tb : x = id /\ tb[x].instance_id = inst /\ tb[x].status = "in_progress"}

\* UPDATE ... SET status='checked', decision=?, completed_at=?
\* WHERE id=? AND instance_id=? AND status='in_progress'
SetChecked(tb, id, inst, d, t) ==
  [x \in DOMAIN tb |->
     IF x \in Owned(tb, id, inst)
       THEN [tb[x] EXCEPT !.status = "checked", !.decision = d, !.completed_at = t]
       ELSE tb[x]]

\* Variant: the release that sets status='awaiting' and clears nothing.
ReleaseRowKeepOwner(tb, id, inst) ==
  [x \in DOMAIN tb |->
     IF x \in Owned(tb, id, inst) THEN [tb[x] EXCEPT !.status = "awaiting"] ELSE tb[x]]

\* UPDATE ... (reset) WHERE id=? AND instance_id=? AND status='in_progress'
ReleaseRow(tb, id, inst) ==
  [x \in DOMAIN tb |-> IF x \in Owned(tb, id, inst) THEN Reset(tb[x]) ELSE tb[x]]

\* Variant: the WHERE clause with the arguments bound in the given order only.
MatchesGivenOrder(p, a, b) == p.uuid1 = a /\ p.uuid2 = b

\* WHERE ((uuid1 = ? AND uuid2 = ?) OR (uuid1 = ? AND uuid2 = ?)), bound to
\* (uuid1, uuid2, uuid2, uuid1)
MatchesPair(p, a, b) ==
  (p.uuid1 = a /\ p.uuid2 = b) \/ (p.uuid1 = b /\ p.uuid2 = a)

\* SELECT ... WHERE (pair) AND status IN (...) LIMIT 1; fetchone(): the table is
\* scanned in rowid order and the first matching row is the result, 0 for None.
FirstRow(tb, ps, a, b, statuses) ==
  LET hit == {k \in DOMAIN ps :
                MatchesPair(ps[k], a, b) /\ tb[ps[k].id].status \in statuses}
  IN IF hit = {} THEN 0 ELSE CHOOSE k \in hit : \A m \in hit : k <= m

\* get_existing_pair_decision(uuid1, uuid2): result[0] if result else None
ExistingDecisionResult(tb, ps, a, b) ==
  LET k == FirstRow(tb, ps, a, b, {"checked", "sent"})
  IN IF k = 0 THEN PyNone ELSE tb[ps[k].id].decision

\* check_pair_exists(uuid1, uuid2): (True, status, decision) or (False, None, None)
PairExistsResult(tb, ps, a, b) ==
  LET k == FirstRow(tb, ps, a, b, Statuses)
  IN IF k = 0
       THEN <<FALSE, PyNone, PyNone>>
       ELSE <<TRUE, tb[ps[k].id].status, tb[ps[k].id].decision>>

\* SELECT COUNT(*), SUM(CASE WHEN status=... THEN 1 ELSE 0 END) ...,
\* COUNT(DISTINCT instance_id) FROM image_verification; fetchone().
\* COUNT(DISTINCT x) counts the values of x that are not NULL.
SelectTotals(tb) ==
  LET count(st) == Cardinality({x \in DOMAIN tb : tb[x].status = st})
  IN [total |-> Cardinality(DOMAIN tb),
      awaiting |-> count("awaiting"),
      in_progress |-> count("in_progress"),
      checked |-> count("checked"),
      active_instances |-> Cardinality({tb[x].instance_id : x \in DOMAIN tb} \ {NULL})]

\* SELECT instance_id, COUNT(*) ... WHERE status='in_progress' AND instance_id
\* IS NOT NULL GROUP BY instance_id; fetchall(): one entry per owner
SelectBreakdown(tb) ==
  LET held == {x \in DOMAIN tb : tb[x].status = "in_progress" /\ tb[x].instance_id # NULL}
  IN [o \in {tb[x].instance_id : x \in held} |->
        Cardinality({x \in held : tb[x].instance_id = o})]

\* ------------------------------------------------------------------ state
Batches == UNION {[1..k -> Ids] : k \in 0..MaxBatch}

\* Module import: no pair claimed, no thread started, the flag clear.
InitProcesses ==
  /\ now = 0
  /\ active = [i \in Instances |-> {}]
  /\ pc = [i \in Instances |-> Idle]
  /\ mon = [i \in Instances |-> MonState("off", 0)]
  /\ shutdown_flag = [i \in Instances |-> FALSE]
  /\ fpc = [c \in Consumers |-> FIdle]
  /\ delivered = [x \in Ids |-> <<>>]
  /\ claimLog = <<>>
  /\ lastInsert = [batch |-> <<>>, count |-> 0]
  /\ found = NoLookup
  /\ ticked = {}

\* init_db() on a new database file: the table exists and is empty.
Init ==
  /\ tbl = <<>>
  /\ pairs = <<>>
  /\ InitProcesses

\* The producer has inserted some pairs and nobody has claimed one yet.
InitQueued ==
  /\ \E S \in SUBSET Ids : tbl = [x \in S |-> NewRow]
  /\ pairs = <<>>
  /\ InitProcesses

\* Rows as the program leaves them: inserted; claimed; decided (update_status
\* keeps the lease columns, and accepts any value of the decision column).
LookupRows ==
  LET leased == [NewRow EXCEPT !.status = "in_progress", !.started_at = 0,
                               !.instance_id = 1, !.heartbeat = 0]
  IN {NewRow, leased} \cup
     {[leased EXCEPT !.status = s, !.decision = d, !.completed_at = 0] :
        s \in {"checked", "sent"}, d \in Decisions}

\* A table whose rows were inserted in some order with some uuid1, uuid2 and
\* have since reached some status.
InitLookup ==
  /\ \E S \in SUBSET Ids :
       /\ tbl \in [S -> LookupRows]
       /\ \E order \in [1..Cardinality(S) -> S], u1 \in [S -> Uuids], u2 \in [S -> Uuids] :
            /\ \A x \in S : \E k \in 1..Cardinality(S) : order[k] = x
            /\ pairs = [k \in 1..Cardinality(S) |->
                          [id |-> order[k], uuid1 |-> u1[order[k]], uuid2 |-> u2[order[k]]]]
  /\ InitProcesses

\* ------------------------------------------------------------- Task Store

\* add_image_pairs(pairs): what it returns, inserted_count = cursor.rowcount
AddImagePairsReturn(tb, batch) == ExecuteMany(tb, batch).rowcount

\* add_image_pairs(pairs): one executemany and its commit
InsertTxn(batch) ==
  /\ tbl' = ExecuteMany(tbl, batch).t
  /\ UNCHANGED <<now, active, pc, mon, shutdown_flag, fpc, delivered, claimLog,
               pairs, found, ticked>>

AddImagePairs(batch) == InsertTxn(batch) /\ UNCHANGED lastInsert

\* add_image_pair(id, ...): the batch function with one item
AddImagePair(id) == AddImagePairs(<<id>>)

\* Variant: an init_db() that resets the in_progress rows of every owner.
InitDbAnyOwner(i) ==
  /\ pc[i] = Idle
  /\ tbl' = ResetInstanceAnyOwner(tbl, i)
  /\ UNCHANGED <<now, active, pc, mon, shutdown_flag, fpc, delivered, claimLog,
               lastInsert, pairs, found, ticked>>

\* init_db(): CREATE TABLE IF NOT EXISTS, then reset_instance_pairs()
InitDb(i) ==
  /\ pc[i] = Idle
  /\ tbl' = ResetInstance(tbl, i)
  /\ UNCHANGED <<now, active, pc, mon, shutdown_flag, fpc, delivered, claimLog,
               lastInsert, pairs, found, ticked>>

\* get_existing_pair_decision(uuid1, uuid2)
GetExistingPairDecision(a, b) ==
  /\ found' = [fn |-> "get_existing_pair_decision", a |-> a, b |-> b,
               result |-> ExistingDecisionResult(tbl, pairs, a, b)]
  /\ UNCHANGED <<tbl, now, active, pc, mon, shutdown_flag, fpc, delivered, claimLog,
               lastInsert, pairs, ticked>>

\* check_pair_exists(uuid1, uuid2)
CheckPairExists(a, b) ==
  /\ found' = [fn |-> "check_pair_exists", a |-> a, b |-> b,
               result |-> PairExistsResult(tbl, pairs, a, b)]
  /\ UNCHANGED <<tbl, now, active, pc, mon, shutdown_flag, fpc, delivered, claimLog,
               lastInsert, pairs, ticked>>

\* get_instance_stats(): the first SELECT and fetchone()
StatsTotals(i) ==
  /\ pc[i] = Idle
  /\ \A j \in Instances : pc[j].op # "stats"
  /\ pc' = [pc EXCEPT ![i] = [op |-> "stats", id |-> NoPair, ok |-> FALSE]]
  /\ found' = [fn |-> "get_instance_stats", a |-> i, b |-> 0,
               result |-> [totals |-> SelectTotals(tbl), instance_breakdown |-> <<>>]]
  /\ UNCHANGED <<tbl, now, active, mon, shutdown_flag, fpc, delivered, claimLog,
               lastInsert, pairs, ticked>>

\* get_instance_stats(): the second SELECT, fetchall(), and the returned dict
StatsReturn(i) ==
  /\ pc[i].op = "stats"
  /\ pc' = [pc EXCEPT ![i] = Idle]
  /\ found' = [found EXCEPT !.b = 1, !.result.instance_breakdown = SelectBreakdown(tbl)]
  /\ UNCHANGED <<tbl, now, active, mon, shutdown_flag, fpc, delivered, claimLog,
               lastInsert, pairs, ticked>>

\* ----------------------------------------------------------- Lease Manager

\* get_next_pair_atomic(), BEGIN IMMEDIATE .. commit/rollback: one transaction
ClaimTxn(i) ==
  /\ pc[i] = Idle
  /\ LET id == SelectNext(tbl)
         rowcount == Cardinality({x \in DOMAIN tbl : x = id /\ tbl[x].status = "awaiting"})
     IN IF id # NoPair /\ rowcount = 1
          THEN /\ tbl' = Reserve(tbl, id, i, now)
               /\ pc' = [pc EXCEPT ![i] = [op |-> "claim", id |-> id, ok |-> TRUE]]
          ELSE /\ tbl' = tbl
               /\ pc' = [pc EXCEPT ![i] = [op |-> "claim", id |-> NoPair, ok |-> FALSE]]
  /\ UNCHANGED <<now, active, mon, shutdown_flag, fpc, delivered,
               lastInsert, pairs, found, ticked>>

\* Variant: a return that does not record the pair in instance_active_pairs.
ClaimDoneUnrecorded(i) ==
  /\ pc[i].op = "claim"
  /\ active' = active
  /\ pc' = [pc EXCEPT ![i] = Idle]
  /\ UNCHANGED <<tbl, now, mon, shutdown_flag, fpc, delivered, lastInsert, pairs, found, ticked>>

\* get_next_pair_atomic(), after the commit: instance_active_pairs.add; return
ClaimDone(i) ==
  /\ pc[i].op = "claim"
  /\ active' = [active EXCEPT ![i] = IF pc[i].ok THEN @ \cup {pc[i].id} ELSE @]
  /\ pc' = [pc EXCEPT ![i] = Idle]
  /\ UNCHANGED <<tbl, now, mon, shutdown_flag, fpc, delivered,
               lastInsert, pairs, found, ticked>>

ClaimNext(i) == ClaimTxn(i) /\ UNCHANGED claimLog

\* Statements of get_next_pair_atomic at which the storage layer can fail (the
\* database is locked past the busy timeout, an I/O error).
FaultPoints == {"begin", "select", "update", "commit"}

\* get_next_pair_atomic() with a storage fault.  BEGIN IMMEDIATE is executed
\* before the try statement: its exception leaves the function.  An exception
\* of a later statement is caught: rollback, return None.
ClaimFault(i, at) ==
  /\ pc[i] = Idle
  /\ pc' = [pc EXCEPT ![i] = IF at = "begin"
                               THEN [op |-> "raise", id |-> NoPair, ok |-> FALSE]
                               ELSE [op |-> "claim", id |-> NoPair, ok |-> FALSE]]
  /\ UNCHANGED <<tbl, now, active, mon, shutdown_flag, fpc, delivered, claimLog,
               lastInsert, pairs, found, ticked>>

\* The exception reaches the caller of get_next_pair_atomic.
ClaimRaise(i) ==
  /\ pc[i].op = "raise"
  /\ pc' = [pc EXCEPT ![i] = Idle]
  /\ UNCHANGED <<tbl, now, active, mon, shutdown_flag, fpc, delivered, claimLog,
               lastInsert, pairs, found, ticked>>

ClaimReturn(i) == ClaimDone(i) /\ UNCHANGED claimLog

\* update_heartbeat(pair_id)
UpdateHeartbeat(i, id) ==
  /\ pc[i] = Idle
  /\ tbl' = Heartbeat(tbl, {id}, i, now)
  /\ UNCHANGED <<now, active, pc, mon, shutdown_flag, fpc, delivered, claimLog,
               lastInsert, pairs, found, ticked>>

\* release_pair(pair_id): the UPDATE and its commit or rollback
ReleaseTxn(i, id) ==
  /\ pc[i] = Idle
  /\ LET rowcount == Cardinality(Owned(tbl, id, i))
     IN /\ tbl' = IF rowcount = 1 THEN ReleaseRow(tbl, id, i) ELSE tbl
        /\ pc' = [pc EXCEPT ![i] = [op |-> "release", id |-> id, ok |-> (rowcount = 1)]]
  /\ UNCHANGED <<now, active, mon, shutdown_flag, fpc, delivered, claimLog,
               lastInsert, pairs, found, ticked>>

\* release_pair / update_status, after the commit: instance_active_pairs.discard; return
DiscardReturn(i) ==
  /\ pc[i].op \in {"release", "submit"}
  /\ active' = [active EXCEPT ![i] = IF pc[i].ok THEN @ \ {pc[i].id} ELSE @]
  /\ pc' = [pc EXCEPT ![i] = Idle]
  /\ UNCHANGED <<tbl, now, mon, shutdown_flag, fpc, delivered, claimLog,
               lastInsert, pairs, found, ticked>>

\* -------------------------------------------------------- Decision Gateway

\* update_status(pair_id, decision): the UPDATE and its commit or rollback
SubmitTxn(i, id, d) ==
  /\ pc[i] = Idle
  /\ LET rowcount == Cardinality(Owned(tbl, id, i))
     IN /\ tbl' = IF rowcount = 1 THEN SetChecked(tbl, id, i, d, now) ELSE tbl
        /\ pc' = [pc EXCEPT ![i] = [op |-> "submit", id |-> id, ok |-> (rowcount = 1)]]
  /\ UNCHANGED <<now, active, mon, shutdown_flag, fpc, delivered, claimLog,
               lastInsert, pairs, found, ticked>>

\* get_decisions(pair_ids): the SELECT and fetchall(); no transaction is open
\* yet.  With no row found the function commits nothing and returns {}.
FetchSelect(c, ids) ==
  /\ fpc[c] = FIdle
  /\ LET results == SelectChecked(tbl, ids)
     IN /\ DOMAIN results # {}
        /\ fpc' = [fpc EXCEPT ![c] = [st |-> "selected", ids |-> ids, res |-> results]]
  /\ UNCHANGED <<tbl, now, active, pc, mon, shutdown_flag, delivered, claimLog,
               lastInsert, pairs, found, ticked>>

\* get_decisions(pair_ids): the UPDATE to 'sent', commit, return the results
FetchUpdate(c) ==
  /\ fpc[c].st = "selected"
  /\ tbl' = MarkSent(tbl, fpc[c].ids)
  /\ delivered' = [x \in Ids |->
                     IF x \in DOMAIN fpc[c].res
                       THEN Append(delivered[x], fpc[c].res[x])
                       ELSE delivered[x]]
  /\ fpc' = [fpc EXCEPT ![c] = FIdle]
  /\ UNCHANGED <<now, active, pc, mon, shutdown_flag, claimLog,
               lastInsert, pairs, found, ticked>>

\* ------------------------------------------------------ Recovery & Lifecycle

\* cleanup_instance_pairs(): with a non-empty private set, the UPDATE and commit
CleanupTxn(i) ==
  /\ pc[i] = Idle
  /\ active[i] # {}
  /\ tbl' = ResetInstance(tbl, i)
  /\ pc' = [pc EXCEPT ![i] = [op |-> "cleanup", id |-> NoPair, ok |-> TRUE]]
  /\ UNCHANGED <<now, active, mon, shutdown_flag, fpc, delivered, claimLog,
               lastInsert, pairs, found, ticked>>

\* cleanup_instance_pairs(): instance_active_pairs.clear()
CleanupClear(i) ==
  /\ pc[i].op = "cleanup"
  /\ active' = [active EXCEPT ![i] = {}]
  /\ pc' = [pc EXCEPT ![i] = Idle]
  /\ UNCHANGED <<tbl, now, mon, shutdown_flag, fpc, delivered, claimLog,
               lastInsert, pairs, found, ticked>>

\* stop_heartbeat_system(): shutdown_flag.set()
StopHeartbeat(i) ==
  /\ pc[i] = Idle
  /\ ~shutdown_flag[i]
  /\ shutdown_flag' = [shutdown_flag EXCEPT ![i] = TRUE]
  /\ UNCHANGED <<tbl, now, active, pc, mon, fpc, delivered, claimLog,
               lastInsert, pairs, found, ticked>>

\* The process ends (killed, or the interpreter exits): its threads stop, its
\* rows stay as they are.
ProcessEnd(i) ==
  /\ pc[i] # Dead
  /\ pc' = [pc EXCEPT ![i] = Dead]
  /\ mon' = [mon EXCEPT ![i] = MonState("dead", 0)]
  /\ UNCHANGED <<tbl, now, active, shutdown_flag, fpc, delivered, claimLog,
               lastInsert, pairs, found, ticked>>

\* -------------------------------------------------------- Heartbeat Monitor

\* start_heartbeat_system(): the thread starts and waits in shutdown_flag.wait(30)
StartThread(i) ==
  /\ pc[i] = Idle
  /\ mon[i].st = "off"
  /\ mon' = [mon EXCEPT ![i] = MonState("wait", 0)]
  /\ UNCHANGED <<tbl, now, active, pc, shutdown_flag, fpc, delivered, claimLog,
               lastInsert, pairs, found, ticked>>

StartHeartbeat(i) == i \in Monitored /\ StartThread(i)

\* Variant: a loop that sleeps 30 seconds and does not look at the flag.
MonTickStartUnsignalled(i) ==
  /\ mon[i].st = "wait"
  /\ mon' = [mon EXCEPT ![i] = IF active[i] = {}
                                 THEN MonState("sweep", 0)
                                 ELSE MonState("refresh", Cardinality(active[i]))]
  /\ UNCHANGED <<tbl, now, active, pc, shutdown_flag, fpc, delivered, claimLog, lastInsert,
               pairs, found>>

\* heartbeat_worker: wait(30) times out with the flag clear; the tick tests
\* instance_active_pairs and builds one placeholder per element
MonTickStart(i) ==
  /\ mon[i].st = "wait"
  /\ ~shutdown_flag[i]
  /\ mon' = [mon EXCEPT ![i] = IF active[i] = {}
                                 THEN MonState("sweep", 0)
                                 ELSE MonState("refresh", Cardinality(active[i]))]
  /\ UNCHANGED <<tbl, now, active, pc, shutdown_flag, fpc, delivered, claimLog, lastInsert,
               pairs, found>>

MonWake(i) == MonTickStart(i) /\ UNCHANGED ticked

\* heartbeat_worker: execute the batch UPDATE with list(instance_active_pairs).
\* A set whose size changed since the placeholders were built gives the wrong
\* number of bindings: execute raises, the except clause ends the tick.
\* Otherwise the tick goes on to the sweep, the placeholders still in scope.
MonRefresh(i) ==
  /\ mon[i].st = "refresh"
  /\ IF Cardinality(active[i]) = mon[i].n
       THEN /\ tbl' = Heartbeat(tbl, active[i], i, now)
            /\ mon' = [mon EXCEPT ![i] = MonState("sweep", mon[i].n)]
       ELSE /\ tbl' = tbl
            /\ mon' = [mon EXCEPT ![i] = MonState("wait", 0)]
  /\ UNCHANGED <<now, active, pc, shutdown_flag, fpc, delivered, claimLog,
               lastInsert, pairs, found, ticked>>

\* heartbeat_worker: reset_stale_pairs(db_path, timeout_minutes=3)
MonSweep(i) ==
  /\ mon[i].st = "sweep"
  /\ tbl' = ResetStale(tbl, now, MonitorTimeoutMinutes)
  /\ mon' = [mon EXCEPT ![i] = MonState("wait", 0)]
  /\ UNCHANGED <<now, active, pc, shutdown_flag, fpc, delivered, claimLog,
               lastInsert, pairs, found, ticked>>

\* heartbeat_worker: wait(30) returns True, the loop ends
MonExit(i) ==
  /\ mon[i].st = "wait"
  /\ shutdown_flag[i]
  /\ mon' = [mon EXCEPT ![i] = MonState("done", 0)]
  /\ UNCHANGED <<tbl, now, active, pc, shutdown_flag, fpc, delivered, claimLog,
               lastInsert, pairs, found, ticked>>

\* Time passes.
Tick ==
  /\ now < MaxTicks * ClockStep
  /\ now' = now + ClockStep
  /\ UNCHANGED <<tbl, active, pc, mon, shutdown_flag, fpc, delivered, claimLog,
               lastInsert, pairs, found, ticked>>

\* ---------------------------------------------------------- specifications
SomeDecision == {"correct"}
FetchInputs == (SUBSET Ids) \ {{}}

\* The whole program: every operation of the store, the leases, the gateway
\* and the monitor, by every instance.
Next ==
  \/ \E id \in Ids : AddImagePair(id)
  \/ \E i \in Instances : InitDb(i)
  \/ \E i \in Instances : ClaimNext(i)
  \/ \E i \in Instances : ClaimReturn(i)
  \/ \E i \in Instances, id \in Ids : UpdateHeartbeat(i, id)
  \/ \E i \in Instances, id \in Ids : ReleaseTxn(i, id)
  \/ \E i \in Instances, id \in Ids, d \in SomeDecision : SubmitTxn(i, id, d)
  \/ \E i \in Instances : DiscardReturn(i)
  \/ FetchSelect(1, Ids)
  \/ FetchUpdate(1)
  \/ \E i \in Instances : CleanupTxn(i)
  \/ \E i \in Instances : CleanupClear(i)
  \/ \E i \in Instances : StartHeartbeat(i)
  \/ \E i \in Instances : MonWake(i)
  \/ \E i \in Instances : MonRefresh(i)
  \/ \E i \in Instances : MonSweep(i)
  \/ Tick

Spec == Init /\ [][Next]_vars

\* The claim race: some pairs await, and instances issue MaxCalls calls of
\* get_next_pair_atomic; nothing else touches the table.
ClaimCall(i) ==
  /\ Len(claimLog) + Cardinality({j \in Instances : pc[j].op = "claim"}) < MaxCalls
  /\ ClaimTxn(i)
  /\ UNCHANGED claimLog

ClaimCallReturn(i) ==
  /\ ClaimDone(i)
  /\ claimLog' = Append(claimLog, pc[i].id)

NextClaim ==
  \/ \E i \in Instances : ClaimCall(i)
  \/ \E i \in Instances : ClaimCallReturn(i)

SpecClaim == InitQueued /\ [][NextClaim]_vars

\* Leases: pairs are queued; workers claim, refresh, submit and release them
\* while time passes and the heartbeat monitors run.
NextLease ==
  \/ \E i \in Instances : ClaimNext(i)
  \/ \E i \in Instances : ClaimReturn(i)
  \/ \E i \in Instances, id \in Ids : UpdateHeartbeat(i, id)
  \/ \E i \in Instances, id \in Ids : ReleaseTxn(i, id)
  \/ \E i \in Instances, id \in Ids, d \in SomeDecision : SubmitTxn(i, id, d)
  \/ \E i \in Instances : DiscardReturn(i)
  \/ \E i \in Instances : StartHeartbeat(i)
  \/ \E i \in Instances : MonWake(i)
  \/ \E i \in Instances : MonRefresh(i)
  \/ \E i \in Instances : MonSweep(i)
  \/ Tick

SpecLease == InitQueued /\ [][NextLease]_vars

\* The decision gateway: producers insert, workers claim, submit any decision
\* and release, consumers fetch; no time passes.
NextGateway ==
  \/ \E b \in Batches : AddImagePairs(b)
  \/ \E i \in Instances : ClaimNext(i)
  \/ \E i \in Instances : ClaimReturn(i)
  \/ \E i \in Instances, id \in Ids : ReleaseTxn(i, id)
  \/ \E i \in Instances, id \in Ids, d \in Decisions : SubmitTxn(i, id, d)
  \/ \E i \in Instances : DiscardReturn(i)
  \/ \E c \in Consumers, ids \in FetchInputs : FetchSelect(c, ids)
  \/ \E c \in Consumers : FetchUpdate(c)

SpecGateway == Init /\ [][NextGateway]_vars

\* Abandoned leases: workers claim and release, processes end, time passes,
\* and the monitor threads keep running (each step of a started thread is
\* eventually taken; the clock advances while it can).
NextLive ==
  \/ \E i \in Instances : ClaimNext(i)
  \/ \E i \in Instances : ClaimReturn(i)
  \/ \E i \in Instances, id \in Ids : ReleaseTxn(i, id)
  \/ \E i \in Instances : DiscardReturn(i)
  \/ \E i \in Instances : ProcessEnd(i)
  \/ \E i \in Instances : StartHeartbeat(i)
  \/ \E i \in Instances : MonWake(i)
  \/ \E i \in Instances : MonRefresh(i)
  \/ \E i \in Instances : MonSweep(i)
  \/ Tick

MonitorFairness ==
  \A i \in Instances :
    /\ WF_vars(MonWake(i))
    /\ WF_vars(MonRefresh(i))
    /\ WF_vars(MonSweep(i))

SpecLive == InitQueued /\ [][NextLive]_vars /\ WF_vars(Tick) /\ MonitorFairness

\* Inserting into a table in use: a producer inserts batches, whose return
\* value is logged, while workers claim and submit and a consumer fetches, so
\* that a batch meets rows in every status.
AddLogged(batch) ==
  /\ InsertTxn(batch)
  /\ lastInsert' = [batch |-> batch, count |-> AddImagePairsReturn(tbl, batch)]

NextInsert ==
  \/ \E b \in Batches : AddLogged(b)
  \/ \E i \in Instances : ClaimNext(i)
  \/ \E i \in Instances : ClaimReturn(i)
  \/ \E i \in Instances, id \in Ids, d \in SomeDecision : SubmitTxn(i, id, d)
  \/ \E i \in Instances : DiscardReturn(i)
  \/ FetchSelect(1, Ids)
  \/ FetchUpdate(1)

SpecInsert == Init /\ [][NextInsert]_vars

\* Leases under a ticking monitor, minute by minute.  Every instance starts
\* its heartbeat thread before it claims.  A thread that waits 30 seconds
\* between ticks begins a tick in every minute, and a tick or a call of the
\* module that began in a minute is over before the minute is.
MonTick(i) == MonTickStart(i) /\ ticked' = ticked \cup {i}

ClaimUnderMonitor(i) == mon[i].st # "off" /\ ClaimNext(i)

Minute ==
  /\ now < MaxMinutes
  /\ \A i \in Instances : pc[i] = Idle
  /\ \A i \in Instances : mon[i].st # "off" => (mon[i].st = "wait" /\ i \in ticked)
  /\ now' = now + 1
  /\ ticked' = {}
  /\ UNCHANGED <<tbl, active, pc, mon, shutdown_flag, fpc, delivered, claimLog,
               lastInsert, pairs, found>>

NextKeepAlive ==
  \/ \E i \in Instances : StartThread(i)
  \/ \E i \in Instances : ClaimUnderMonitor(i)
  \/ \E i \in Instances : ClaimReturn(i)
  \/ \E i \in Instances, id \in Ids : ReleaseTxn(i, id)
  \/ \E i \in Instances : DiscardReturn(i)
  \/ \E i \in Instances : MonTick(i)
  \/ \E i \in Instances : MonRefresh(i)
  \/ \E i \in Instances : MonSweep(i)
  \/ Minute

SpecKeepAlive == InitQueued /\ [][NextKeepAlive]_vars

\* Claims on faulty storage: workers claim, submit and release while any
\* statement of the claim transaction may fail.
NextFault ==
  \/ \E i \in Instances : ClaimNext(i)
  \/ \E i \in Instances, at \in FaultPoints : ClaimFault(i, at)
  \/ \E i \in Instances : ClaimReturn(i)
  \/ \E i \in Instances : ClaimRaise(i)
  \/ \E i \in Instances, id \in Ids : ReleaseTxn(i, id)
  \/ \E i \in Instances, id \in Ids, d \in SomeDecision : SubmitTxn(i, id, d)
  \/ \E i \in Instances : DiscardReturn(i)

SpecFault == InitQueued /\ [][NextFault]_vars

\* Stopping the monitor: workers claim and release and time passes while
\* stop_heartbeat_system may be called at any moment; a started thread is
\* scheduled again and again.
NextStop ==
  \/ \E i \in Instances : ClaimNext(i)
  \/ \E i \in Instances : ClaimReturn(i)
  \/ \E i \in Instances, id \in Ids : ReleaseTxn(i, id)
  \/ \E i \in Instances : DiscardReturn(i)
  \/ \E i \in Instances : StartHeartbeat(i)
  \/ \E i \in Instances : StopHeartbeat(i)
  \/ \E i \in Instances : MonWake(i)
  \/ \E i \in Instances : MonRefresh(i)
  \/ \E i \in Instances : MonSweep(i)
  \/ \E i \in Instances : MonExit(i)
  \/ Tick

SpecStop ==
  /\ InitQueued
  /\ [][NextStop]_vars
  /\ MonitorFairness
  /\ \A i \in Instances : WF_vars(MonExit(i))

\* Statistics of a table in use: workers claim, submit and release, a
\* consumer fetches, and any instance asks for the statistics.
NextStats ==
  \/ \E i \in Instances : ClaimNext(i)
  \/ \E i \in Instances : ClaimReturn(i)
  \/ \E i \in Instances, id \in Ids : ReleaseTxn(i, id)
  \/ \E i \in Instances, id \in Ids, d \in SomeDecision : SubmitTxn(i, id, d)
  \/ \E i \in Instances : DiscardReturn(i)
  \/ FetchSelect(1, Ids)
  \/ FetchUpdate(1)
  \/ \E i \in Instances : StatsTotals(i)
  \/ \E i \in Instances : StatsReturn(i)

SpecStats == InitQueued /\ [][NextStats]_vars

\* Decisions under every operation: the whole program, with workers that
\* disagree: the first always answers 'correct', the others 'incorrect'.
Verdict(i) == IF i = 1 THEN "correct" ELSE "incorrect"

\* init_db issued while the process lists no pair of its own
\* (instance_active_pairs is empty), as on a start of the process; rows that
\* still carry its instance_id from earlier submissions are in the table.
InitDbAtStart(i) ==
  /\ active[i] = {}
  /\ InitDb(i)

NextDecide ==
  \/ \E id \in Ids : AddImagePair(id)
  \/ \E i \in Instances : InitDbAtStart(i)
  \/ \E i \in Instances : ClaimNext(i)
  \/ \E i \in Instances : ClaimReturn(i)
  \/ \E i \in Instances, id \in Ids : UpdateHeartbeat(i, id)
  \/ \E i \in Instances, id \in Ids : ReleaseTxn(i, id)
  \/ \E i \in Instances, id \in Ids : SubmitTxn(i, id, Verdict(i))
  \/ \E i \in Instances : DiscardReturn(i)
  \/ FetchSelect(1, Ids)
  \/ FetchUpdate(1)
  \/ \E i \in Instances : CleanupTxn(i)
  \/ \E i \in Instances : CleanupClear(i)
  \/ \E i \in Instances : StartHeartbeat(i)
  \/ \E i \in Instances : MonWake(i)
  \/ \E i \in Instances : MonRefresh(i)
  \/ \E i \in Instances : MonSweep(i)
  \/ Tick

SpecDecide == Init /\ [][NextDecide]_vars

\* Pair lookups: a table in any state is queried by uuid pair.
NextLookup ==
  \/ \E a, b \in Uuids : GetExistingPairDecision(a, b)
  \/ \E a, b \in Uuids : CheckPairExists(a, b)

SpecLookup == InitLookup /\ [][NextLookup]_vars

\* ------------------------------------------------------------------ claims
Cleared(row) ==
  row.instance_id = NULL /\ row.started_at = NULL /\ row.heartbeat = NULL

\* The heartbeat thread of j is in its loop.
MonitorRuns(j) == mon[j].st \in {"wait", "refresh", "sweep"}

\* Pair id is in_progress, its heartbeat is older than the monitor's threshold
\* and the process that owns it has ended.
Abandoned(id) ==
  /\ id \in DOMAIN tbl
  /\ tbl[id].status = "in_progress"
  /\ Stale(tbl[id], now, MonitorTimeoutMinutes)
  /\ tbl[id].instance_id \in Instances
  /\ pc[tbl[id].instance_id] = Dead

Reclaimed(id) ==
  id \in DOMAIN tbl /\ tbl[id].status = "awaiting" /\ Cleared(tbl[id])

\* C7: while some instance's heartbeat monitor keeps ticking, a pair left
\* in_progress by an owner that no longer refreshes it, once its heartbeat is
\* older than 3 minutes, eventually is awaiting again with owner, started_at
\* and heartbeat cleared.
C7_AbandonedLeaseReclaimed ==
  \A id \in Ids, j \in Instances :
    (<>[]MonitorRuns(j)) => (Abandoned(id) ~> Reclaimed(id))

\* ---- C1
Granted == {k \in DOMAIN claimLog : claimLog[k] # NoPair}

\* Calls of get_next_pair_atomic that hold a pair and have not returned yet.
Granting == {i \in Instances : pc[i].op = "claim" /\ pc[i].ok}

\* C1: with N pairs awaiting and claim calls only, no pair is granted to two
\* calls, and once M >= N calls have returned exactly N of them returned a
\* pair (the other M - N returned None).
C1_ClaimsGrantEachPairOnce ==
  /\ \A k1, k2 \in Granted : claimLog[k1] = claimLog[k2] => k1 = k2
  /\ \A i \in Granting : \A k \in Granted : claimLog[k] # pc[i].id
  /\ \A i, j \in Granting : pc[i].id = pc[j].id => i = j
  /\ ((\A i \in Instances : pc[i] = Idle) /\ Len(claimLog) >= Cardinality(DOMAIN tbl))
       => Cardinality(Granted) = Cardinality(DOMAIN tbl)

\* More calls than pairs, all returned, every instance was granted a pair.
C1_Witness ==
  /\ \A i \in Instances : pc[i] = Idle /\ active[i] # {}
  /\ Cardinality(DOMAIN tbl) >= 2
  /\ Len(claimLog) > Cardinality(DOMAIN tbl)

\* ---- C2
\* C2: update_status by an instance on a pair that is in_progress under
\* another owner changes no row and returns False.
C2_ReassignedSubmitRejected ==
  [][\A i \in Instances, id \in Ids, d \in SomeDecision :
       (/\ SubmitTxn(i, id, d)
        /\ id \in DOMAIN tbl
        /\ tbl[id].status = "in_progress"
        /\ tbl[id].instance_id # i)
       => (/\ tbl' = tbl
           /\ pc'[i] = [op |-> "submit", id |-> id, ok |-> FALSE])]_vars

\* A claimed the pair (it is still in A's private set), the pair now is
\* in_progress under B, claimed at a later time, and A's update_status failed.
C2_Witness ==
  \E i \in Instances, id \in Ids :
    /\ pc[i] = [op |-> "submit", id |-> id, ok |-> FALSE]
    /\ id \in active[i]
    /\ id \in DOMAIN tbl
    /\ tbl[id].status = "in_progress"
    /\ tbl[id].instance_id \notin {i, NULL}
    /\ tbl[id].started_at > 0

\* ---- C3
\* C3: get_decisions returns the decision of a pair to at most one call.
C3_DeliveredAtMostOnce ==
  \A id \in Ids : Len(delivered[id]) <= 1

\* ---- C4
\* C4: a pair is sent only if a get_decisions call returned its decision.
C4_SentWasDelivered ==
  \A id \in DOMAIN tbl : tbl[id].status = "sent" => Len(delivered[id]) >= 1

\* ---- C5
\* C5: instance_id, started_at and heartbeat are non-null exactly in the rows
\* that are in_progress.
C5_LeaseFieldsIffInProgress ==
  \A id \in DOMAIN tbl :
    /\ tbl[id].instance_id # NULL <=> tbl[id].status = "in_progress"
    /\ tbl[id].started_at # NULL <=> tbl[id].status = "in_progress"
    /\ tbl[id].heartbeat # NULL <=> tbl[id].status = "in_progress"

\* ---- C6
\* C6: decision differs from 'none' exactly in the rows that are checked or
\* sent, whichever of the four allowed decisions update_status is given.
C6_DecisionIffDone ==
  \A id \in DOMAIN tbl :
    tbl[id].decision # "none" <=> tbl[id].status \in {"checked", "sent"}

\* ---- C8
AwaitingIds(tb) == {x \in DOMAIN tb : tb[x].status = "awaiting"}

\* C8: release_pair by the owner returns True and leaves the pair awaiting
\* with owner, started_at and heartbeat cleared; on return the pair is out of
\* the releaser's private set; and a get_next_pair_atomic that finds the pair
\* the smallest awaiting id is granted it, whoever calls.
C8_ReleasedIsReclaimable ==
  [][\A i \in Instances :
       /\ \A id \in Ids :
            (/\ ReleaseTxn(i, id)
             /\ id \in DOMAIN tbl
             /\ tbl[id].status = "in_progress"
             /\ tbl[id].instance_id = i)
            => (/\ pc'[i] = [op |-> "release", id |-> id, ok |-> TRUE]
                /\ Reclaimed(id)')
       /\ (DiscardReturn(i) /\ pc[i].op = "release" /\ pc[i].ok)
            => (pc[i].id \notin active'[i] /\ pc'[i] = Idle)
       /\ \A id \in Ids :
            (/\ ClaimNext(i)
             /\ id \in AwaitingIds(tbl)
             /\ \A x \in AwaitingIds(tbl) : id <= x)
            => (/\ pc'[i] = [op |-> "claim", id |-> id, ok |-> TRUE]
                /\ tbl'[id].status = "in_progress"
                /\ tbl'[id].instance_id = i)]_vars

\* The release of a pair by i has committed and, before release_pair even
\* returned, another instance has been granted that pair.
C8_Witness ==
  \E i, j \in Instances, id \in Ids :
    /\ i # j
    /\ pc[i] = [op |-> "release", id |-> id, ok |-> TRUE]
    /\ pc[j] = [op |-> "claim", id |-> id, ok |-> TRUE]
    /\ id \in active[i]
    /\ tbl[id].instance_id = j

\* ---- C9
\* C9: a row's status changes only awaiting -> in_progress (a claim),
\* in_progress -> awaiting (release, stale sweep, init_db, cleanup),
\* in_progress -> checked (update_status by the owner) and checked -> sent
\* (get_decisions); a new row is awaiting; a sent row never changes; no row
\* disappears.
C9_StatusTransitions ==
  [][/\ \A id \in DOMAIN tbl :
          /\ id \in DOMAIN tbl'
          /\ tbl[id].status = "sent" => tbl'[id] = tbl[id]
          /\ tbl'[id].status # tbl[id].status =>
               \/ /\ tbl[id].status = "awaiting"
                  /\ tbl'[id].status = "in_progress"
                  /\ \E i \in Instances : ClaimNext(i) /\ pc'[i].id = id
               \/ /\ tbl[id].status = "in_progress"
                  /\ tbl'[id].status = "awaiting"
                  /\ \E i \in Instances :
                       \/ ReleaseTxn(i, id)
                       \/ MonSweep(i)
                       \/ InitDb(i)
                       \/ CleanupTxn(i)
               \/ /\ tbl[id].status = "in_progress"
                  /\ tbl'[id].status = "checked"
                  /\ \E d \in Decisions : SubmitTxn(tbl[id].instance_id, id, d)
               \/ /\ tbl[id].status = "checked"
                  /\ tbl'[id].status = "sent"
                  /\ \E c \in Consumers : FetchUpdate(c)
     /\ \A id \in DOMAIN tbl' \ DOMAIN tbl : tbl'[id].status = "awaiting"]_vars

\* One pair went all the way to sent, and another is awaiting again after a
\* lease that its former owner still lists and nobody ended by a call of the
\* owner: the clock is past the claim and the owner is idle.
C9_Witness ==
  \E id1, id2 \in DOMAIN tbl, i \in Instances :
    /\ tbl[id1].status = "sent"
    /\ tbl[id2].status = "awaiting"
    /\ id2 \in active[i]
    /\ pc[i] = Idle
    /\ now > 0

\* ---- C10
\* C10: add_image_pairs leaves every existing row as it is, adds the ids of
\* the batch that were absent as awaiting rows with decision 'none', and
\* returns the number of rows it added.
C10_InsertIgnoresDuplicates ==
  [][\A b \in Batches :
       AddLogged(b) =>
         LET new == {b[k] : k \in DOMAIN b} \ DOMAIN tbl
         IN /\ DOMAIN tbl' = DOMAIN tbl \cup new
            /\ \A id \in DOMAIN tbl : tbl'[id] = tbl[id]
            /\ \A id \in new : tbl'[id].status = "awaiting" /\ tbl'[id].decision = "none"
            /\ lastInsert'.count = Cardinality(new)]_vars

\* The last batch held a pair that is sent and a pair that was new: one row
\* was inserted, fewer than the batch is long, and the sent row is still sent.
C10_Witness ==
  /\ Len(lastInsert.batch) = 2
  /\ lastInsert.count = 1
  /\ \E k \in DOMAIN lastInsert.batch :
       /\ tbl[lastInsert.batch[k]].status = "sent"
       /\ tbl[lastInsert.batch[k]].decision # "none"
  /\ \E k \in DOMAIN lastInsert.batch :
       tbl[lastInsert.batch[k]].status = "awaiting"

\* ---- C11
\* Row k stores the pair {a, b}, in either order.
StoresPair(k, a, b) == {pairs[k].uuid1, pairs[k].uuid2} = {a, b}

\* C11: get_existing_pair_decision and check_pair_exists return for (A, B) what
\* they return for (B, A); get_existing_pair_decision returns a decision
\* exactly when a row storing the pair in either order is checked or sent, and
\* then the decision of such a row; check_pair_exists finds the pair exactly
\* when a row stores it in either order.
C11_LookupSymmetric ==
  [][\A a, b \in Uuids :
       /\ GetExistingPairDecision(a, b) =>
            /\ found'.result = ExistingDecisionResult(tbl, pairs, b, a)
            /\ found'.result # PyNone <=>
                 \E k \in DOMAIN pairs :
                   StoresPair(k, a, b) /\ tbl[pairs[k].id].status \in {"checked", "sent"}
            /\ found'.result # PyNone =>
                 \E k \in DOMAIN pairs :
                   /\ StoresPair(k, a, b)
                   /\ tbl[pairs[k].id].status \in {"checked", "sent"}
                   /\ tbl[pairs[k].id].decision = found'.result
       /\ CheckPairExists(a, b) =>
            /\ found'.result = PairExistsResult(tbl, pairs, b, a)
            /\ found'.result[1] <=> \E k \in DOMAIN pairs : StoresPair(k, a, b)]_vars

\* The decision of a pair was found although the one decided row that stores
\* it has the two uuids in the other order than the query gave them.
C11_Witness ==
  /\ found.fn = "get_existing_pair_decision"
  /\ found.a # found.b
  /\ found.result \in Decisions
  /\ \A k \in DOMAIN pairs : ~MatchesGivenOrder(pairs[k], found.a, found.b)
  /\ \E k \in DOMAIN pairs :
       /\ MatchesGivenOrder(pairs[k], found.b, found.a)
       /\ tbl[pairs[k].id].status = "checked"

\* ---- C12
\* C12: no sweep of any instance's monitor resets a pair that is in_progress
\* under an instance whose own monitor is running, ticks in every interval
\* and has the pair in its private set.
C12_HeartbeatKeepsLease ==
  [][\A j \in Instances, t \in DOMAIN tbl :
       (/\ MonSweep(j)
        /\ tbl[t].status = "in_progress"
        /\ tbl[t].instance_id \in Instances
        /\ t \in active[tbl[t].instance_id]
        /\ MonitorRuns(tbl[t].instance_id))
       => tbl'[t].status = "in_progress"]_vars

\* ---- C13
\* C13: a tick that has begun with a non-empty private set writes the
\* heartbeat of the pairs in the set and goes on to the stale sweep, whatever
\* the main thread of the instance did to the set since the tick began.
C13_TickRefreshesThenSweeps ==
  [][\A i \in Instances :
       MonRefresh(i) =>
         /\ tbl' = Heartbeat(tbl, active[i], i, now)
         /\ mon'[i].st = "sweep"]_vars

\* ---- C14
\* C14: the transaction of get_next_pair_atomic grants the smallest id that is
\* awaiting when it runs and leaves that row in_progress with the caller as
\* owner and started_at and heartbeat set to the time of the claim; the call
\* then puts the id in the caller's private set; with no row awaiting the
\* call returns None.
C14_ClaimTakesSmallestAwaiting ==
  [][\A i \in Instances :
       /\ ClaimNext(i) =>
            IF AwaitingIds(tbl) = {}
              THEN pc'[i] = [op |-> "claim", id |-> NoPair, ok |-> FALSE]
              ELSE /\ pc'[i].ok
                   /\ pc'[i].id \in AwaitingIds(tbl)
                   /\ \A x \in AwaitingIds(tbl) : pc'[i].id <= x
                   /\ tbl'[pc'[i].id] =
                        [tbl[pc'[i].id] EXCEPT !.status = "in_progress", !.instance_id = i,
                                               !.started_at = now, !.heartbeat = now]
       /\ (ClaimReturn(i) /\ pc[i].ok) =>
            (pc[i].id \in active'[i] /\ pc'[i] = Idle)]_vars

\* Two pairs are awaiting when the claim runs, after the clock has moved: the
\* call holds the smaller one, claimed at the present time; the other still
\* awaits.
C14_Witness ==
  \E i \in Instances, id1, id2 \in DOMAIN tbl :
    /\ id1 < id2
    /\ pc[i] = [op |-> "claim", id |-> id1, ok |-> TRUE]
    /\ tbl[id1].status = "in_progress"
    /\ tbl[id1].instance_id = i
    /\ tbl[id1].started_at = now
    /\ now > 0
    /\ tbl[id2].status = "awaiting"

\* ---- C15
\* C15: a get_next_pair_atomic that grants nothing, because no row awaits,
\* because its UPDATE changed no row or because a statement of its transaction
\* failed, changes no row, returns None without raising, and leaves the
\* caller's private set as it was.
C15_AbsentClaimChangesNothing ==
  [][\A i \in Instances :
       /\ \A at \in FaultPoints :
            ClaimFault(i, at) =>
              (tbl' = tbl /\ pc'[i] = [op |-> "claim", id |-> NoPair, ok |-> FALSE])
       /\ (ClaimNext(i) /\ ~pc'[i].ok) =>
            (tbl' = tbl /\ pc'[i] = [op |-> "claim", id |-> NoPair, ok |-> FALSE])
       /\ (ClaimReturn(i) /\ ~pc[i].ok) => (active' = active /\ pc'[i] = Idle)]_vars

\* ---- C16
\* C16: release_pair called by an instance for a pair that is not in_progress
\* under that instance (absent, awaiting, in_progress under another owner,
\* checked or sent) changes no row and returns False.
C16_ForeignReleaseIsNoOp ==
  [][\A i \in Instances, id \in Ids :
       /\ (/\ ReleaseTxn(i, id)
           /\ ~(/\ id \in DOMAIN tbl
                /\ tbl[id].status = "in_progress"
                /\ tbl[id].instance_id = i))
          => (tbl' = tbl /\ pc'[i] = [op |-> "release", id |-> id, ok |-> FALSE])
       /\ (DiscardReturn(i) /\ pc[i] = [op |-> "release", id |-> id, ok |-> FALSE])
          => (active' = active /\ pc'[i] = Idle)]_vars

\* An instance released a pair that it had decided itself and that has been
\* sent since: the row still names the instance, and the release failed.
C16_Witness ==
  \E i \in Instances, id \in DOMAIN tbl :
    /\ pc[i] = [op |-> "release", id |-> id, ok |-> FALSE]
    /\ tbl[id].status = "sent"
    /\ tbl[id].instance_id = i

\* ---- C17
HeldBy(i) ==
  {x \in DOMAIN tbl : tbl[x].status = "in_progress" /\ tbl[x].instance_id = i}

\* C17: cleanup_instance_pairs of an instance makes every pair that is
\* in_progress under it awaiting with owner, started_at and heartbeat
\* cleared, so that none stays in_progress under it; it changes no other row,
\* whatever ids the private set lists; it leaves the private set empty.  The
\* call does nothing when the private set is empty, and then the instance
\* holds no pair.
C17_CleanupReleasesOwnLeases ==
  /\ [][\A i \in Instances :
          /\ CleanupTxn(i) =>
               /\ \A id \in HeldBy(i) : Reclaimed(id)'
               /\ \A id \in DOMAIN tbl \ HeldBy(i) : tbl'[id] = tbl[id]
               /\ HeldBy(i)' = {}
          /\ CleanupClear(i) => (active'[i] = {} /\ tbl' = tbl /\ pc'[i] = Idle)]_vars
  /\ [](\A i \in Instances : (pc[i] = Idle /\ active[i] = {}) => HeldBy(i) = {})

\* The cleanup of i has committed: of the two ids in i's private set one is
\* awaiting again and the other, which i lost earlier, is still in_progress
\* under another instance.
C17_Witness ==
  \E i, j \in Instances, id1, id2 \in DOMAIN tbl :
    /\ i # j
    /\ pc[i].op = "cleanup"
    /\ {id1, id2} \subseteq active[i]
    /\ tbl[id1].status = "in_progress"
    /\ tbl[id1].instance_id = j
    /\ Reclaimed(id2)

\* ---- C18
\* C18: init_db called by an instance resets the rows that are in_progress
\* under that instance to awaiting with owner, started_at and heartbeat NULL
\* and changes nothing else: no other row, no other column, no row added or
\* removed; called by an instance that holds no pair it changes nothing.
C18_InitTouchesOwnLeasesOnly ==
  [][\A i \in Instances :
       InitDb(i) =>
         /\ DOMAIN tbl' = DOMAIN tbl
         /\ \A id \in HeldBy(i) :
              tbl'[id] = [tbl[id] EXCEPT !.status = "awaiting", !.instance_id = NULL,
                                         !.started_at = NULL, !.heartbeat = NULL]
         /\ \A id \in DOMAIN tbl \ HeldBy(i) : tbl'[id] = tbl[id]
         /\ HeldBy(i) = {} => tbl' = tbl]_vars

\* Before the clock has moved an idle instance lists a pair that is awaiting
\* (only its own init_db can have reset it) while another instance holds a pair.
C18_Witness ==
  \E i, j \in Instances, id1, id2 \in DOMAIN tbl :
    /\ i # j
    /\ now = 0
    /\ pc[i] = Idle
    /\ id1 \in active[i]
    /\ Reclaimed(id1)
    /\ tbl[id2].status = "in_progress"
    /\ tbl[id2].instance_id = j

\* ---- C19
\* C19: update_heartbeat and the batch refresh of the monitor change no row
\* that is not in_progress under the calling instance, whatever ids the
\* caller passes or its private set lists, and of a row that is they change
\* the heartbeat only.
C19_HeartbeatOwnerGated ==
  [][\A i \in Instances :
       ((\E id \in Ids : UpdateHeartbeat(i, id)) \/ MonRefresh(i)) =>
         /\ DOMAIN tbl' = DOMAIN tbl
         /\ \A x \in DOMAIN tbl \ HeldBy(i) : tbl'[x] = tbl[x]
         /\ \A x \in HeldBy(i) : tbl'[x] = [tbl[x] EXCEPT !.heartbeat = tbl'[x].heartbeat]]_vars

\* The batch refresh of i's monitor has run with a pair in i's private set
\* that was reclaimed and is in_progress under another instance, which has
\* not refreshed it since it claimed it.
C19_Witness ==
  \E i, j \in Instances, id \in DOMAIN tbl :
    /\ i # j
    /\ mon[i] = MonState("sweep", 1)
    /\ pc[i] = Idle
    /\ active[i] = {id}
    /\ tbl[id].status = "in_progress"
    /\ tbl[id].instance_id = j
    /\ tbl[id].heartbeat = tbl[id].started_at

\* ---- C20
\* C20: once shutdown_flag is set, a heartbeat thread that waits between two
\* ticks begins no tick; a tick in progress runs to its end; the thread then
\* leaves its loop, and it does so without changing a row; a thread that has
\* left its loop takes no further step.
C20_StopEndsMonitor ==
  /\ [][\A i \in Instances :
          /\ (shutdown_flag[i] /\ mon[i].st = "wait") => mon'[i].st \in {"wait", "done"}
          /\ (shutdown_flag[i] /\ mon[i].st = "refresh") => mon'[i].st \in {"refresh", "sweep", "wait"}
          /\ (shutdown_flag[i] /\ mon[i].st = "sweep") => mon'[i].st \in {"sweep", "wait"}
          /\ MonExit(i) => (shutdown_flag[i] /\ tbl' = tbl)
          /\ mon[i].st = "done" =>
               (mon'[i].st = "done" /\ ~MonRefresh(i) /\ ~MonSweep(i))]_vars
  /\ \A i \in Instances :
       (shutdown_flag[i] /\ MonitorRuns(i)) ~> (mon[i].st = "done")

\* The thread of i has left its loop on the signal, after it had refreshed
\* the heartbeat of a pair that i still holds.
C20_Witness ==
  \E i \in Instances, id \in DOMAIN tbl :
    /\ shutdown_flag[i]
    /\ mon[i].st = "done"
    /\ id \in HeldBy(i)
    /\ tbl[id].heartbeat > tbl[id].started_at

\* ---- C21
\* Instances that own a pair that is in_progress.
Owners(tb) ==
  {tb[x].instance_id : x \in {y \in DOMAIN tb : tb[y].status = "in_progress"}}

\* C21: get_instance_stats changes no row, and the active_instances it reads
\* is the number of instances that own an in_progress pair at that moment
\* (the number of entries a breakdown read at the same moment has), also when
\* some pairs are checked or sent.
C21_StatsCountsOwners ==
  [][\A i \in Instances :
       /\ StatsTotals(i) =>
            /\ tbl' = tbl
            /\ found'.result.totals.active_instances = Cardinality(Owners(tbl))
            /\ found'.result.totals.active_instances =
                 Cardinality(DOMAIN SelectBreakdown(tbl))
       /\ StatsReturn(i) => tbl' = tbl]_vars

\* ---- C22
\* C22: update_status that succeeds records the decision it was given and the
\* time; from then on no step of any instance changes the decision or
\* completed_at of the row; and what get_decisions returns for a pair is the
\* decision its row holds.
C22_DecisionIsFinal ==
  [][/\ \A id \in DOMAIN tbl :
          tbl[id].status \in {"checked", "sent"} =>
            /\ id \in DOMAIN tbl'
            /\ tbl'[id].status \in {"checked", "sent"}
            /\ tbl'[id].decision = tbl[id].decision
            /\ tbl'[id].completed_at = tbl[id].completed_at
     /\ \A i \in Instances :
          (pc[i] = Idle /\ pc'[i].op = "submit" /\ pc'[i].ok) =>
            \A d \in Decisions :
              SubmitTxn(i, pc'[i].id, d) =>
                (/\ tbl[pc'[i].id].status = "in_progress"
                 /\ tbl'[pc'[i].id].status = "checked"
                 /\ tbl'[pc'[i].id].decision = d
                 /\ tbl'[pc'[i].id].completed_at = now)
     /\ \A c \in Consumers :
          (fpc[c].st = "selected" /\ fpc'[c] = FIdle) =>
            (/\ FetchUpdate(c)
             /\ \A id \in DOMAIN fpc[c].res :
                  /\ tbl'[id].status = "sent"
                  /\ delivered'[id][Len(delivered'[id])] = tbl'[id].decision)]_vars

\* Two pairs were decided differently, the second after the clock had moved,
\* and both decisions were returned by get_decisions as they were given.
C22_Witness ==
  \E id1, id2 \in DOMAIN tbl :
    /\ tbl[id1].status = "sent"
    /\ tbl[id2].status = "sent"
    /\ delivered[id1] = <<"correct">>
    /\ delivered[id2] = <<"incorrect">>
    /\ tbl[id1].completed_at < tbl[id2].completed_at

\* ---- C23
\* C23: while an instance is between two calls of the module, its private set
\* lists every pair that is in_progress under it (and possibly pairs it has
\* lost).
C23_PrivateSetCoversLeases ==
  \A i \in Instances : pc[i] = Idle => HeldBy(i) \subseteq active[i]

\* An idle instance holds a pair and also lists a pair that it lost and that
\* another instance holds now.
C23_Witness ==
  \E i, j \in Instances, id1, id2 \in DOMAIN tbl :
    /\ i # j
    /\ pc[i] = Idle
    /\ id1 \in HeldBy(i)
    /\ id2 \in active[i]
    /\ id2 \in HeldBy(j)

====
